---------------------------- MODULE Spec2Model ----------------------------
(***************************************************************************)
(* A model of the two analysis scripts of Constructions-as-HPCs:           *)
(*   python/03_model_y.py          (inventory model pipeline)              *)
(*   python/11_extract_let_alone.py (construction extraction pipeline)     *)
(* Each function the claims are about is one small state machine with its  *)
(* own specification; the variables of the other machines stay idle.       *)
(***************************************************************************)
EXTENDS Integers, Sequences, FiniteSets, TLC

VARIABLES
    \* ---- normalize_phoneme_strip_marks / compute_inventory_flags --------
    normPc,          \* "raw" -> "norm" -> "renorm"
    Phoneme,         \* the raw 'Phoneme' column: a sequence of strings
    Phoneme_norm,    \* the 'Phoneme_norm' column (03_model_y.py:55)
    Phoneme_renorm,  \* the normaliser applied to its own output
    \* ---- select_largest_inventory ---------------------------------------
    selPc,           \* "input" -> "done"
    sizes,           \* the input table, a sequence of rows
    largest,         \* the returned table
    \* ---- cross_validated_auc --------------------------------------------
    cvPc,            \* "split" -> "fit" -> "score" -> ... -> "done" | "raised"
    cvY,             \* the response: [neg |-> n0, pos |-> n1] class counts
    cvFold,          \* index of the fold the loop is at (0-based)
    aucs,            \* the list aucs
    cvResult,        \* the returned value
    \* ---- bootstrap_prediction_intervals ---------------------------------
    bootPc,          \* "loop" -> "done" | "raised"
    y_full,          \* the response of data: [neg |-> n0, pos |-> n1] class counts
    bootIter,        \* iterations of the bootstrap loop done so far
    y_boot,          \* the response of the current resample, as class counts
    preds_list,      \* collected curves: curve index -> how many collected
    bootOut,         \* the returned (mean_pred, lower, upper)
    \* ---- generate_predictions / design_matrix / main --------------------
    predPc,          \* "data" -> "done"
    family_name,     \* the 'family_name' column of data
    ref_family,      \* main's ref_family
    X_new,           \* the prediction input: columns and one row of values
    \* ---- load_corpus_features -------------------------------------------
    loadPc,          \* "idle" -> "synth" -> "idle" ...
    fsDirs,          \* corpus -> state of the directory data/ud/<corpus>
    rngState,        \* numpy's global generator state
    loadCorpus,      \* the corpus argument of the call in progress
    loadRows,        \* rows built so far
    loadReturned,    \* corpus -> sequence of the tables returned so far
    \* ---- compute_collostruction -----------------------------------------
    colloPc,         \* "input" -> "done" -> "swapped"
    df,              \* the combined feature table: rows (corpus, y_form)
    llr_scores,      \* the dictionary llr_scores in insertion order
    results,         \* the returned dictionary corpus -> list
    results_swapped  \* the result for the table with the corpora swapped

normVars  == <<normPc, Phoneme, Phoneme_norm, Phoneme_renorm>>
selVars   == <<selPc, sizes, largest>>
cvVars    == <<cvPc, cvY, cvFold, aucs, cvResult>>
bootVars  == <<bootPc, y_full, bootIter, y_boot, preds_list, bootOut>>
predVars  == <<predPc, family_name, ref_family, X_new>>
loadVars  == <<loadPc, fsDirs, rngState, loadCorpus, loadRows, loadReturned>>
colloVars == <<colloPc, df, llr_scores, results, results_swapped>>
vars == <<normVars, selVars, cvVars, bootVars, predVars, loadVars, colloVars>>

\* The idle values of the machines a specification does not run.
NormIdle  == normPc = "idle" /\ Phoneme = <<>> /\ Phoneme_norm = <<>>
             /\ Phoneme_renorm = <<>>
SelIdle   == selPc = "idle" /\ sizes = <<>> /\ largest = <<>>
CvIdle    == cvPc = "idle" /\ cvY = [neg |-> 0, pos |-> 0] /\ cvFold = 0
             /\ aucs = <<>> /\ cvResult = [kind |-> "none"]
BootIdle  == bootPc = "idle" /\ y_full = [neg |-> 0, pos |-> 0] /\ bootIter = 0
             /\ y_boot = [neg |-> 0, pos |-> 0] /\ preds_list = <<>>
             /\ bootOut = [kind |-> "none"]
PredIdle  == predPc = "idle" /\ family_name = <<>> /\ ref_family = ""
             /\ X_new = [columns |-> <<>>, row |-> <<>>]
LoadIdle  == loadPc = "off" /\ fsDirs = <<>> /\ rngState = 0
             /\ loadCorpus = "" /\ loadRows = <<>> /\ loadReturned = <<>>
ColloIdle == colloPc = "idle" /\ df = <<>> /\ llr_scores = <<>>
             /\ results = <<>> /\ results_swapped = <<>>

-----------------------------------------------------------------------------
(***************************************************************************)
(* Generic helpers.                                                        *)
(***************************************************************************)
\* Sequences over S of length exactly n, and of length at most n.
SeqsExact(S, n) == [1..n -> S]
SeqsUpTo(S, n) == UNION {SeqsExact(S, k) : k \in 0..n}

RECURSIVE SumSeq(_)
SumSeq(s) == IF s = <<>> THEN 0 ELSE Head(s) + SumSeq(Tail(s))

-----------------------------------------------------------------------------
(***************************************************************************)
(* normalize_phoneme_strip_marks (03_model_y.py:34-49).                   *)
(* A string is a sequence of Unicode code points.  The alphabet holds a   *)
(* space, two base letters, one stripped modifier letter (U+02D0), one    *)
(* stripped combining mark (U+0301), one combining mark the function      *)
(* keeps (U+030A) and the precomposed letters NFKC builds from them.      *)
(***************************************************************************)
MaxChars == 3        \* total number of characters in the Phoneme column

SPACE == 32          \* ' '
LAT_A == 97          \* a
LAT_Y == 121         \* y
LENGTH_MARK == 720   \* U+02D0 modifier letter triangular colon
ACUTE == 769         \* U+0301 combining acute accent
RING == 778          \* U+030A combining ring above
A_ACUTE == 225       \* U+00E1
A_RING == 229        \* U+00E5
Y_ACUTE == 253       \* U+00FD
A_RING_ACUTE == 507  \* U+01FB
Y_RING == 7833       \* U+1E99

Alphabet == {SPACE, LAT_A, LAT_Y, LENGTH_MARK, ACUTE, RING, A_ACUTE, A_RING, Y_ACUTE}

\* pd.isnull(s): a missing value (None / NaN) is the one-element sequence <<-1>>.
Null == <<-1>>

\* The character class of the re.sub at line 48.
StripSet == {720, 721, 712, 716, 768, 769, 770, 771, 772, 774, 776}

\* Canonical combining class (UnicodeData.txt): the combining marks above
\* have class 230, every other character of the alphabet is a starter.
Ccc(ch) == IF ch \in {768, 769, 770, 771, 772, 774, 776, 778} THEN 230 ELSE 0

\* Full canonical decomposition of one character.
DecomposeChar(ch) ==
    CASE ch = A_ACUTE      -> <<LAT_A, ACUTE>>
      [] ch = A_RING       -> <<LAT_A, RING>>
      [] ch = Y_ACUTE      -> <<LAT_Y, ACUTE>>
      [] ch = A_RING_ACUTE -> <<LAT_A, RING, ACUTE>>
      [] ch = Y_RING       -> <<LAT_Y, RING>>
      [] OTHER             -> <<ch>>

RECURSIVE Decompose(_)
Decompose(s) ==
    IF s = <<>> THEN <<>> ELSE DecomposeChar(Head(s)) \o Decompose(Tail(s))

\* Primary composite of a starter and a following character; 0 when none.
Composite(st, ch) ==
    CASE st = LAT_A /\ ch = ACUTE  -> A_ACUTE
      [] st = LAT_A /\ ch = RING   -> A_RING
      [] st = A_RING /\ ch = ACUTE -> A_RING_ACUTE
      [] st = LAT_Y /\ ch = ACUTE  -> Y_ACUTE
      [] st = LAT_Y /\ ch = RING   -> Y_RING
      [] OTHER                     -> 0

\* Canonical composition (UAX #15): out is the text composed so far, stPos
\* the position in out of the last starter, lastClass the combining class of
\* the last character appended after it.
RECURSIVE ComposeFrom(_, _, _, _)
ComposeFrom(out, stPos, lastClass, rest) ==
    IF rest = <<>> THEN out
    ELSE LET ch == Head(rest)
             chClass == Ccc(ch)
             comp == Composite(out[stPos], ch)
         IN  IF comp # 0 /\ (lastClass < chClass \/ lastClass = 0)
             THEN ComposeFrom([out EXCEPT ![stPos] = comp], stPos, lastClass,
                              Tail(rest))
             ELSE ComposeFrom(Append(out, ch),
                              IF chClass = 0 THEN Len(out) + 1 ELSE stPos,
                              chClass, Tail(rest))

Compose(d) ==
    IF d = <<>> THEN <<>>
    ELSE ComposeFrom(<<Head(d)>>, 1, IF Ccc(Head(d)) = 0 THEN 0 ELSE 256, Tail(d))

\* unicodedata.normalize('NFKC', s), line 46.  All marks of the alphabet share
\* combining class 230, so canonical reordering leaves the decomposition as is;
\* no character of the alphabet has a compatibility decomposition.
NFKC(s) == Compose(Decompose(s))

\* re.sub(r'[...]', '', s), line 48.
ReSubMarks(s) == SelectSeq(s, LAMBDA ch : ch \notin StripSet)

\* str.strip(), line 49.
RECURSIVE LStrip(_)
LStrip(s) == IF s # <<>> /\ Head(s) = SPACE THEN LStrip(Tail(s)) ELSE s
RECURSIVE RStrip(_)
RStrip(s) ==
    IF s # <<>> /\ s[Len(s)] = SPACE THEN RStrip(SubSeq(s, 1, Len(s) - 1)) ELSE s
StrStrip(s) == RStrip(LStrip(s))

\* The function of lines 34-49.
normalize_phoneme_strip_marks(s) ==
    IF s = Null THEN <<>> ELSE StrStrip(ReSubMarks(NFKC(s)))

\* The raw columns: one cell, or two cells sharing the character budget.
Cells(n) == SeqsUpTo(Alphabet, n) \cup {Null}
Columns ==
    {<<s>> : s \in Cells(MaxChars)}
    \cup UNION {{<<s, t>> : s \in SeqsExact(Alphabet, k), t \in Cells(MaxChars - k)}
                : k \in 0..MaxChars}

InitNorm ==
    /\ normPc = "raw"
    /\ Phoneme \in Columns
    /\ Phoneme_norm = <<>>
    /\ Phoneme_renorm = <<>>
    /\ SelIdle /\ CvIdle /\ BootIdle /\ PredIdle /\ LoadIdle /\ ColloIdle

\* df['Phoneme_norm'] = df['Phoneme'].apply(normalize_phoneme_strip_marks)
ApplyNormalize ==
    /\ normPc = "raw"
    /\ Phoneme_norm' = [i \in DOMAIN Phoneme |-> normalize_phoneme_strip_marks(Phoneme[i])]
    /\ normPc' = "norm"
    /\ UNCHANGED <<Phoneme, Phoneme_renorm>>
    /\ UNCHANGED <<selVars, cvVars, bootVars, predVars, loadVars, colloVars>>

\* The normaliser applied to the column it produced.
Renormalize ==
    /\ normPc = "norm"
    /\ Phoneme_renorm' =
          [i \in DOMAIN Phoneme_norm |-> normalize_phoneme_strip_marks(Phoneme_norm[i])]
    /\ normPc' = "renorm"
    /\ UNCHANGED <<Phoneme, Phoneme_norm>>
    /\ UNCHANGED <<selVars, cvVars, bootVars, predVars, loadVars, colloVars>>

NextNorm == ApplyNormalize \/ Renormalize
SpecNorm == InitNorm /\ [][NextNorm]_vars

\* What is left of a transcription when the stripped diacritics are taken out
\* of its canonical decomposition: two transcriptions differ only by those
\* diacritics exactly when this is the same for both.
Bare(s) == ReSubMarks(Decompose(s))

\* C2: normalisation is idempotent: normalising the normalised column
\* returns it unchanged.
C2_Idempotent ==
    normPc = "renorm" => Phoneme_renorm = Phoneme_norm

\* C3: two transcriptions that differ only by the stripped diacritics get the
\* same canonical symbol, also when NFKC has combined the diacritic with its
\* base character, and a missing value maps to the empty string.
C3_SameCanonicalSymbol ==
    normPc = "norm" =>
        \A i, j \in DOMAIN Phoneme :
            /\ Phoneme[i] = Null => Phoneme_norm[i] = <<>>
            /\ (Phoneme[i] # Null /\ Phoneme[j] # Null
                /\ Bare(Phoneme[i]) = Bare(Phoneme[j]))
               => Phoneme_norm[i] = Phoneme_norm[j]

-----------------------------------------------------------------------------
(***************************************************************************)
(* select_largest_inventory (03_model_y.py:68-70).                        *)
(* A row of sizes is [Glottocode, InventoryID, total_inventory_size,      *)
(* vowel_inventory_size].  Glottocodes are numbered in their sort order;   *)
(* the InventoryID of a row is its position in the input table.           *)
(***************************************************************************)
MaxRows == 3         \* rows of the input table
MaxSize == 2         \* largest total_inventory_size

Glottocodes == {1, 2}

\* A vowel count never exceeds the total count it is part of (lines 57-58).
SizeRows ==
    {[Glottocode |-> g, total_inventory_size |-> t, vowel_inventory_size |-> v] :
        g \in Glottocodes, t \in 1..MaxSize, v \in 0..MaxSize}
KeyRows == {r \in SizeRows : r.vowel_inventory_size <= r.total_inventory_size}

WithInventoryID(rows) ==
    [i \in DOMAIN rows |->
        [Glottocode |-> rows[i].Glottocode, InventoryID |-> i,
         total_inventory_size |-> rows[i].total_inventory_size,
         vowel_inventory_size |-> rows[i].vowel_inventory_size]]

SizesTables == {WithInventoryID(rows) : rows \in SeqsUpTo(KeyRows, MaxRows)}

\* A wrong sort order: total_inventory_size ascending.
SortsBeforeAscendingTotal(r1, r2) ==
    \/ r1.Glottocode < r2.Glottocode
    \/ /\ r1.Glottocode = r2.Glottocode
       /\ \/ r1.total_inventory_size < r2.total_inventory_size
          \/ /\ r1.total_inventory_size = r2.total_inventory_size
             /\ r1.vowel_inventory_size > r2.vowel_inventory_size

\* by=['Glottocode', 'total_inventory_size', 'vowel_inventory_size'],
\* ascending=[True, False, False]: r1 sorts strictly before r2.
SortsBefore(r1, r2) ==
    \/ r1.Glottocode < r2.Glottocode
    \/ /\ r1.Glottocode = r2.Glottocode
       /\ \/ r1.total_inventory_size > r2.total_inventory_size
          \/ /\ r1.total_inventory_size = r2.total_inventory_size
             /\ r1.vowel_inventory_size > r2.vowel_inventory_size

\* A sort that is not stable: a row goes before the rows it ties with.
RECURSIVE InsertBeforeTies(_, _)
InsertBeforeTies(x, s) ==
    IF s = <<>> THEN <<x>>
    ELSE IF SortsBefore(Head(s), x) THEN <<Head(s)>> \o InsertBeforeTies(x, Tail(s))
         ELSE <<x>> \o s

\* One step of the sort: x, which comes later in the input than every row of
\* the sorted s, goes behind every row it does not sort strictly before.  A
\* sort on several columns is a lexsort, which is stable.
RECURSIVE InsertSorted(_, _)
InsertSorted(x, s) ==
    IF s = <<>> THEN <<x>>
    ELSE IF SortsBefore(x, Head(s)) THEN <<x>> \o s
         ELSE <<Head(s)>> \o InsertSorted(x, Tail(s))

RECURSIVE SortFrom(_, _)
SortFrom(done, rest) ==
    IF rest = <<>> THEN done
    ELSE SortFrom(InsertSorted(Head(rest), done), Tail(rest))

\* sizes.sort_values(by=[...], ascending=[True, False, False]), line 69.
sort_values(rows) == SortFrom(<<>>, rows)

\* groupby('Glottocode').head(1).reset_index(drop=True), line 70: the first
\* row of every group, in the order of the frame.
GroupbyHead1(rows) ==
    SelectSeq([i \in DOMAIN rows |->
                  [row |-> rows[i],
                   first |-> \A j \in 1..(i - 1) :
                                 rows[j].Glottocode # rows[i].Glottocode]],
              LAMBDA e : e.first)

select_largest_inventory(rows) ==
    LET heads == GroupbyHead1(sort_values(rows))
    IN  [i \in DOMAIN heads |-> heads[i].row]

InitSelect ==
    /\ selPc = "input"
    /\ sizes \in SizesTables
    /\ largest = <<>>
    /\ NormIdle /\ CvIdle /\ BootIdle /\ PredIdle /\ LoadIdle /\ ColloIdle

\* largest = select_largest_inventory(sizes), line 87.
SelectLargest ==
    /\ selPc = "input"
    /\ largest' = select_largest_inventory(sizes)
    /\ selPc' = "done"
    /\ UNCHANGED sizes
    /\ UNCHANGED <<normVars, cvVars, bootVars, predVars, loadVars, colloVars>>

NextSelect == SelectLargest
SpecSelect == InitSelect /\ [][NextSelect]_vars

RowsOf(table) == {table[i] : i \in DOMAIN table}
RowsOfLanguage(table, g) == {r \in RowsOf(table) : r.Glottocode = g}

\* C1: the selection returns exactly one row for every Glottocode of the
\* input and none for any other, each returned row is a row of the input, and
\* its total_inventory_size is >= that of every input row of its Glottocode.
C1_OneLargestPerLanguage ==
    selPc = "done" =>
        /\ RowsOf(largest) \subseteq RowsOf(sizes)
        /\ \A g \in Glottocodes :
              Cardinality({i \in DOMAIN largest : largest[i].Glottocode = g})
                 = IF RowsOfLanguage(sizes, g) = {} THEN 0 ELSE 1
        /\ \A r \in RowsOf(largest) :
              \A q \in RowsOfLanguage(sizes, r.Glottocode) :
                  r.total_inventory_size >= q.total_inventory_size

\* A language with two inventories of different totals, the smaller one first
\* in the input, has been reduced to one row.
C1_Witness ==
    /\ selPc = "done"
    /\ \E i, j \in DOMAIN sizes :
          /\ i < j
          /\ sizes[i].Glottocode = sizes[j].Glottocode
          /\ sizes[i].total_inventory_size < sizes[j].total_inventory_size
          /\ sizes[j] \in RowsOf(largest)

\* The rows of language g that no other row of g beats on (total, vowel).
MaximalRows(table, g) ==
    {r \in RowsOfLanguage(table, g) :
        \A q \in RowsOfLanguage(table, g) :
            \/ r.total_inventory_size > q.total_inventory_size
            \/ /\ r.total_inventory_size = q.total_inventory_size
               /\ r.vowel_inventory_size >= q.vowel_inventory_size}

\* C10: the row chosen for a language has the maximal total_inventory_size,
\* among those the maximal vowel_inventory_size, and among those tied on both
\* it is the one that comes first in the input (the least InventoryID here), so
\* the chosen InventoryID is determined by the input table.
C10_TieBreakFirstEncountered ==
    selPc = "done" =>
        \A r \in RowsOf(largest) :
            /\ r \in MaximalRows(sizes, r.Glottocode)
            /\ \A q \in MaximalRows(sizes, r.Glottocode) :
                  r.InventoryID <= q.InventoryID

\* A language with two inventories tied on both counts and a third, smaller
\* one before them; the earlier of the tied two was chosen.
C10_Witness ==
    /\ selPc = "done"
    /\ \E i, j, k \in DOMAIN sizes :
          /\ i < j /\ j < k
          /\ sizes[j].Glottocode = sizes[k].Glottocode
          /\ sizes[i].Glottocode = sizes[k].Glottocode
          /\ sizes[j].total_inventory_size = sizes[k].total_inventory_size
          /\ sizes[j].vowel_inventory_size = sizes[k].vowel_inventory_size
          /\ sizes[i].total_inventory_size = sizes[j].total_inventory_size
          /\ sizes[i].vowel_inventory_size < sizes[j].vowel_inventory_size
          /\ sizes[j] \in RowsOf(largest)

-----------------------------------------------------------------------------
(***************************************************************************)
(* cross_validated_auc (03_model_y.py:116-133).                           *)
(* The response y is given by its class counts and by the class that      *)
(* occurs first in it.  AUC values are counted in halves: 0, 1, 2 stand    *)
(* for 0.0, 0.5, 1.0.                                                      *)
(***************************************************************************)
N_SPLITS == 10       \* StratifiedKFold(n_splits=10, ...), line 120
MaxClass == 10       \* rows of one class in the data
AucUnit == 2         \* an AUC of 1.0 in the unit AUC values are counted in

AucValues == 0..AucUnit

Responses ==
    {[neg |-> n0, pos |-> n1, first |-> c] :
        n0 \in 0..MaxClass, n1 \in 0..MaxClass, c \in {"neg", "pos"}}

RowCount(y) == y.neg + y.pos
CountOfClass(y, c) == IF c = "neg" THEN y.neg ELSE y.pos
OtherClass(c) == IF c = "neg" THEN "pos" ELSE "neg"

\* StratifiedKFold._make_test_folds: the classes are numbered in the order of
\* their first occurrence, the encoded labels are sorted, and fold k takes
\* every n_splits-th label starting at k; the shuffle only decides which rows
\* of a class they are.  The class counts of test fold k:
TestFold(y, k) ==
    LET nFirst == CountOfClass(y, y.first)
        ofFirst == Cardinality({j \in 0..(RowCount(y) - 1) :
                                   j % N_SPLITS = k /\ j < nFirst})
        ofOther == Cardinality({j \in 0..(RowCount(y) - 1) :
                                   j % N_SPLITS = k /\ j >= nFirst})
    IN  IF y.first = "neg" THEN [neg |-> ofFirst, pos |-> ofOther]
        ELSE [neg |-> ofOther, pos |-> ofFirst]

TrainFold(y, k) ==
    [neg |-> y.neg - TestFold(y, k).neg, pos |-> y.pos - TestFold(y, k).pos]

\* len(np.unique(y)) for a part of the response.
NumClasses(part) == (IF part.neg > 0 THEN 1 ELSE 0) + (IF part.pos > 0 THEN 1 ELSE 0)

\* skf.split(X, y), line 122: a ValueError when n_splits exceeds the number of
\* members of every class.
SplitRaises(y) == N_SPLITS > y.neg /\ N_SPLITS > y.pos

\* lr.fit(X_train, y_train), line 126: the solver needs samples of at least
\* two classes and raises a ValueError otherwise.
FitRaises(train) == NumClasses(train) < 2

InitCV ==
    /\ cvPc = "split"
    /\ cvY \in Responses
    /\ cvY.first = "neg" => cvY.neg > 0 \/ cvY.pos = 0
    /\ cvY.first = "pos" => cvY.pos > 0
    /\ cvFold = 0
    /\ aucs = <<>>
    /\ cvResult = [kind |-> "none"]
    /\ NormIdle /\ SelIdle /\ BootIdle /\ PredIdle /\ LoadIdle /\ ColloIdle

cvOthers == <<normVars, selVars, bootVars, predVars, loadVars, colloVars>>

\* Lines 118-122: the folds are made.
CVSplit ==
    /\ cvPc = "split"
    /\ IF SplitRaises(cvY)
       THEN /\ cvPc' = "raised"
            /\ cvResult' = [kind |-> "raised", at |-> "split"]
       ELSE /\ cvPc' = "fit"
            /\ UNCHANGED cvResult
    /\ UNCHANGED <<cvY, cvFold, aucs>>
    /\ UNCHANGED cvOthers

\* Lines 123-126: the model of fold cvFold is fitted on its training part.
CVFit ==
    /\ cvPc = "fit"
    /\ IF FitRaises(TrainFold(cvY, cvFold))
       THEN /\ cvPc' = "raised"
            /\ cvResult' = [kind |-> "raised", at |-> "fit"]
       ELSE /\ cvPc' = "score"
            /\ UNCHANGED cvResult
    /\ UNCHANGED <<cvY, cvFold, aucs>>
    /\ UNCHANGED cvOthers

\* Lines 128-132: the fold is skipped when its test part holds one class,
\* and otherwise contributes roc_auc_score(y_test, probs), a value in [0, 1].
CVScore ==
    /\ cvPc = "score"
    /\ IF NumClasses(TestFold(cvY, cvFold)) < 2
       THEN UNCHANGED aucs
       ELSE \E auc \in AucValues : aucs' = Append(aucs, auc)
    /\ cvFold' = cvFold + 1
    /\ cvPc' = IF cvFold + 1 < N_SPLITS THEN "fit" ELSE "return"
    /\ UNCHANGED <<cvY, cvResult>>
    /\ UNCHANGED cvOthers

\* Line 133: float(np.mean(aucs)) if aucs else float('nan').  The mean is
\* kept as the fraction num / den (in AUC units).
CVReturn ==
    /\ cvPc = "return"
    /\ cvResult' = IF aucs # <<>>
                   THEN [kind |-> "mean", num |-> SumSeq(aucs), den |-> Len(aucs)]
                   ELSE [kind |-> "nan"]
    /\ cvPc' = "done"
    /\ UNCHANGED <<cvY, cvFold, aucs>>
    /\ UNCHANGED cvOthers

NextCV == CVSplit \/ CVFit \/ CVScore \/ CVReturn
SpecCV == InitCV /\ [][NextCV]_vars

TwoClassFolds(y) == {k \in 0..(N_SPLITS - 1) : NumClasses(TestFold(y, k)) = 2}

\* C4: no exception is raised on a fold whose test part is single-class; the
\* folds that contribute an AUC are exactly those whose test part holds both
\* classes; the result is NaN exactly when no fold contributed and otherwise
\* the mean of the contributed AUCs, in [0, 1].
C4_DegenerateFoldsSkipped ==
    /\ (cvPc = "raised" /\ cvResult.at = "fit")
          => NumClasses(TestFold(cvY, cvFold)) = 2
    /\ cvPc = "done" =>
          /\ Len(aucs) = Cardinality(TwoClassFolds(cvY))
          /\ (cvResult.kind = "nan") <=> (TwoClassFolds(cvY) = {})
          /\ cvResult.kind = "mean" =>
                /\ cvResult.num = SumSeq(aucs) /\ cvResult.den = Len(aucs)
                /\ 0 <= cvResult.num /\ cvResult.num <= AucUnit * cvResult.den

-----------------------------------------------------------------------------
(***************************************************************************)
(* bootstrap_prediction_intervals (03_model_y.py:157-184).                *)
(* A predicted curve gives one probability per grid point, counted in     *)
(* units of 1/PredUnit.  preds_list is kept as the number of collected    *)
(* curves of each kind: the mean and the percentiles of lines 181-183 do  *)
(* not depend on the order in which the curves were collected.            *)
(***************************************************************************)
n_boot == 41         \* the argument n_boot (200 in main, line 204)
BootRows == 2        \* len(data)
PredUnit == 2        \* a probability of 1.0 in the unit predictions are counted in

\* The curves lr.predict_proba(X_new)[:, 1] can return, over a grid of two
\* points: rising, flat and falling.
CurveKinds == << <<0, PredUnit>>, <<1, 1>>, <<PredUnit, 0>> >>
Grid == 1..2

NoCurves == [c \in DOMAIN CurveKinds |-> 0]

RECURSIVE SumOver(_, _)
SumOver(f, S) ==
    IF S = {} THEN 0
    ELSE LET x == CHOOSE y \in S : TRUE IN f[x] + SumOver(f, S \ {x})

\* len(preds_list)
Collected(pl) == SumOver(pl, DOMAIN pl)

\* How many collected curves predict at most v at grid point g.
CountAtMost(pl, g, v) == SumOver(pl, {c \in DOMAIN pl : CurveKinds[c][g] <= v})

\* A wrong order: element i of column g sorted from the largest down.
SortedDescendingAt(pl, g, i) ==
    CHOOSE v \in 0..PredUnit :
        /\ SumOver(pl, {c \in DOMAIN pl : CurveKinds[c][g] >= v}) > i
        /\ \A w \in (v + 1)..PredUnit :
              SumOver(pl, {c \in DOMAIN pl : CurveKinds[c][g] >= w}) <= i

\* Element i (0-based) of the sorted column g of preds_arr.
SortedAt(pl, g, i) ==
    CHOOSE v \in 0..PredUnit :
        /\ CountAtMost(pl, g, v) > i
        /\ \A w \in 0..(v - 1) : CountAtMost(pl, g, w) <= i

\* preds_arr.mean(axis=0), line 181, at grid point g, as a fraction.
MeanPred(pl, g) ==
    [num |-> SumOver([c \in DOMAIN pl |-> pl[c] * CurveKinds[c][g]], DOMAIN pl),
     den |-> Collected(pl)]

\* np.percentile(preds_arr, q, axis=0) at grid point g, lines 182-183, with q
\* given in tenths of a percent and the result in thousandths of the unit:
\* the virtual index (n - 1) * q / 100 is split into its floor and its
\* fraction, and the result interpolates linearly between the two neighbours.
Percentile(pl, g, qPerMille) ==
    LET n == Collected(pl)
        h == (n - 1) * qPerMille
        lo == h \div 1000
        fr == h % 1000
        a == SortedAt(pl, g, lo)
        b == IF lo + 1 < n THEN SortedAt(pl, g, lo + 1) ELSE a
    IN  1000 * a + fr * (b - a)

\* The responses data['y_present'].values can hold (line 163), as class counts.
\* The loop treats the two classes alike (np.unique only counts them), so the
\* data sets are taken with at least as many negatives as positives.
BootData ==
    {y \in [neg : 0..BootRows, pos : 0..BootRows] :
        RowCount(y) = BootRows /\ y.neg >= y.pos}

\* No resample drawn: before the loop, and once the function has left it.
NoResample == [neg |-> 0, pos |-> 0]

\* y_full[idx] for idx = rng.integers(0, len(data), len(data)), lines 172-174:
\* len(data) rows drawn with replacement, so every split of len(data) over
\* the classes the data holds can come out.
Resamples(y) ==
    {r \in [neg : 0..RowCount(y), pos : 0..RowCount(y)] :
        /\ RowCount(r) = RowCount(y)
        /\ (y.neg = 0 => r.neg = 0)
        /\ (y.pos = 0 => r.pos = 0)}

InitBoot ==
    /\ bootPc = "loop"
    /\ y_full \in BootData
    /\ bootIter = 0
    /\ y_boot = NoResample
    /\ preds_list = NoCurves
    /\ bootOut = [kind |-> "none"]
    /\ NormIdle /\ SelIdle /\ CvIdle /\ PredIdle /\ LoadIdle /\ ColloIdle

bootOthers == <<normVars, selVars, cvVars, predVars, loadVars, colloVars>>

\* Lines 172-176: len(np.unique(y_boot)) < 2, the resample is skipped.
BootSkip ==
    /\ bootPc = "loop"
    /\ bootIter < n_boot
    /\ \E r \in Resamples(y_full) :
          /\ NumClasses(r) < 2
          /\ y_boot' = r
    /\ bootIter' = bootIter + 1
    /\ UNCHANGED <<bootPc, y_full, preds_list, bootOut>>
    /\ UNCHANGED bootOthers

\* Lines 172-179: the resample holds both classes; a model is fitted and its
\* predicted curve is appended to preds_list.
BootCollect ==
    /\ bootPc = "loop"
    /\ bootIter < n_boot
    /\ \E r \in Resamples(y_full) :
          /\ ~(NumClasses(r) < 2)
          /\ y_boot' = r
    /\ \E c \in DOMAIN CurveKinds :
          preds_list' = [preds_list EXCEPT ![c] = @ + 1]
    /\ bootIter' = bootIter + 1
    /\ UNCHANGED <<bootPc, y_full, bootOut>>
    /\ UNCHANGED bootOthers

\* Lines 180-184.  With no curve collected np.array(preds_list) is the empty
\* array of shape (0,): its mean (line 181) is nan with a RuntimeWarning, and
\* np.percentile (line 182) raises IndexError, because it reads the last
\* element of the partitioned axis, which has none.
BootReturn ==
    /\ bootPc = "loop"
    /\ bootIter = n_boot
    /\ IF Collected(preds_list) = 0
       THEN /\ bootOut' = [kind |-> "IndexError"]
            /\ bootPc' = "raised"
       ELSE /\ bootOut' =
                  [kind |-> "arrays",
                   mean_pred |-> [g \in Grid |-> MeanPred(preds_list, g)],
                   lower |-> [g \in Grid |-> Percentile(preds_list, g, 25)],
                   upper |-> [g \in Grid |-> Percentile(preds_list, g, 975)]]
            /\ bootPc' = "done"
    /\ y_boot' = NoResample
    /\ UNCHANGED <<y_full, bootIter, preds_list>>
    /\ UNCHANGED bootOthers

NextBoot == BootSkip \/ BootCollect \/ BootReturn
SpecBoot == InitBoot /\ [][NextBoot]_vars

\* Comparisons of the returned values: lower and upper are in thousandths of
\* the unit, mean_pred is a fraction of units.
LowerLeMean(g) ==
    bootOut.lower[g] * bootOut.mean_pred[g].den <= 1000 * bootOut.mean_pred[g].num
MeanLeUpper(g) ==
    1000 * bootOut.mean_pred[g].num <= bootOut.upper[g] * bootOut.mean_pred[g].den
CollectedAt(g) == {CurveKinds[c][g] : c \in {k \in DOMAIN preds_list : preds_list[k] > 0}}
MinAt(g) == CHOOSE v \in CollectedAt(g) : \A w \in CollectedAt(g) : v <= w
MaxAt(g) == CHOOSE v \in CollectedAt(g) : \A w \in CollectedAt(g) : v >= w

\* C5 as claimed: at every grid point lower <= mean <= upper.
C5_MeanInsideBand ==
    (bootPc = "done" /\ bootOut.kind = "arrays") =>
        \A g \in Grid : LowerLeMean(g) /\ MeanLeUpper(g)

\* C5 as amended: at every grid point lower <= upper, lower and upper lie
\* between the smallest and the largest collected prediction, and mean,
\* lower and upper all lie in [0, 1].
C5_BandOrdered ==
    (bootPc = "done" /\ bootOut.kind = "arrays") =>
        \A g \in Grid :
            /\ bootOut.lower[g] <= bootOut.upper[g]
            /\ 1000 * MinAt(g) <= bootOut.lower[g]
            /\ bootOut.upper[g] <= 1000 * MaxAt(g)
            /\ 0 <= MinAt(g) /\ MaxAt(g) <= PredUnit
            /\ 0 <= bootOut.mean_pred[g].num
            /\ bootOut.mean_pred[g].num <= PredUnit * bootOut.mean_pred[g].den

\* Some resamples were skipped, the collected curves differ at both grid
\* points, at one the band is strictly inside the range of the collected
\* predictions and strictly around the mean.
C5_Witness ==
    /\ bootPc = "done" /\ bootOut.kind = "arrays"
    /\ Collected(preds_list) < n_boot
    /\ \A g \in Grid : MinAt(g) < MaxAt(g)
    /\ \E g \in Grid :
          /\ 1000 * MinAt(g) < bootOut.lower[g]
          /\ bootOut.upper[g] < 1000 * MaxAt(g)
          /\ bootOut.lower[g] * bootOut.mean_pred[g].den < 1000 * bootOut.mean_pred[g].num
          /\ 1000 * bootOut.mean_pred[g].num < bootOut.upper[g] * bootOut.mean_pred[g].den

\* One pass of the loop body, lines 171-179, has run.
BootIterated == bootIter' = bootIter + 1

\* A resample holding one class leaves preds_list as it was (no model is
\* fitted, no curve collected); a resample holding both classes adds exactly
\* one curve, so the collected curves count the two-class resamples.
SkippedOrCollected ==
    BootIterated =>
        IF NumClasses(y_boot') < 2
        THEN preds_list' = preds_list
        ELSE Collected(preds_list') = Collected(preds_list) + 1

\* The function has not raised.
BootNotRaised == bootPc # "raised"

\* C11, the part about each resample: every single-class resample is skipped
\* and every two-class resample contributes exactly one predicted curve.
C11_EachResampleSkippedOrCollected == [][SkippedOrCollected]_vars

\* C11 as claimed: every single-class resample is skipped, every two-class
\* resample contributes exactly one curve, and the function does not raise,
\* for any number of single-class resamples from 0 up to all n_boot.
C11_DegenerateResamplesSkipped ==
    [][SkippedOrCollected]_vars /\ []BootNotRaised

\* All n_boot resamples held one class and the function has left its loop.
C11_AllResamplesDegenerate ==
    /\ bootPc # "loop"
    /\ bootIter = n_boot
    /\ Collected(preds_list) = 0

-----------------------------------------------------------------------------
(***************************************************************************)
(* design_matrix, generate_predictions, bootstrap_prediction_intervals    *)
(* (the prediction input) and main's ref_family (03_model_y.py:98-103,   *)
(* 136-154, 163-169, 201-206).                                            *)
(***************************************************************************)
MaxData == 4         \* rows of data

\* The family names, in the order pd.get_dummies sorts its categories.
FamilyOrder == <<"(Unknown)", "Austronesian", "Indo-European">>
Families == {FamilyOrder[i] : i \in DOMAIN FamilyOrder}
FamilyRank(f) == CHOOSE i \in DOMAIN FamilyOrder : FamilyOrder[i] = f

\* The centred vowel sizes vowel_range - mean_vowel of the prediction grid.
VowelGrid == {-1, 0, 1}

PresentFamilies(col) == {col[i] : i \in DOMAIN col}

\* The categories of the column in sorted order.
RECURSIVE SortedFamilies(_)
SortedFamilies(S) ==
    IF S = {} THEN <<>>
    ELSE LET f == CHOOSE x \in S : \A y \in S : FamilyRank(x) <= FamilyRank(y)
         IN  <<f>> \o SortedFamilies(S \ {f})

\* pd.get_dummies(data['family_name'], drop_first=True).columns, line 101:
\* one indicator per category except the first of the sorted categories.
DummyColumns(col) == Tail(SortedFamilies(PresentFamilies(col)))

\* design_matrix(data).columns, lines 100-103.
DesignColumns(col) == <<"vowel_inv_c">> \o DummyColumns(col)

\* The indicator part of row i of design_matrix(data).
DesignIndicators(col, i) ==
    [k \in DOMAIN DummyColumns(col) |-> IF col[i] = DummyColumns(col)[k] THEN 1 ELSE 0]

\* data['family_name'].value_counts().idxmax(), line 202: a most frequent
\* family; which one of several equally frequent families is not fixed here.
Occurrences(col, f) == Cardinality({i \in DOMAIN col : col[i] = f})
MostFrequent(col) ==
    {f \in PresentFamilies(col) :
        \A g \in PresentFamilies(col) : Occurrences(col, f) >= Occurrences(col, g)}

\* Lines 146-151 and 163-169: X_new has the columns of design_matrix(data),
\* is filled with 0, and gets vowel_inv_c from the grid.  The argument
\* ref_family is not read.
BuildXNew(col, ref, v) ==
    [columns |-> DesignColumns(col),
     row |-> [k \in DOMAIN DesignColumns(col) |-> IF k = 1 THEN v ELSE 0]]

InitPred ==
    /\ predPc = "data"
    /\ family_name \in SeqsUpTo(Families, MaxData) \ {<<>>}
    /\ ref_family = ""
    /\ X_new = [columns |-> <<>>, row |-> <<>>]
    /\ NormIdle /\ SelIdle /\ CvIdle /\ BootIdle /\ LoadIdle /\ ColloIdle

\* main, lines 201-206: ref_family is chosen and passed to both functions,
\* which build the same prediction input.
MainPredict ==
    /\ predPc = "data"
    /\ \E ref \in MostFrequent(family_name), v \in VowelGrid :
          /\ ref_family' = ref
          /\ X_new' = BuildXNew(family_name, ref, v)
    /\ predPc' = "done"
    /\ UNCHANGED family_name
    /\ UNCHANGED <<normVars, selVars, cvVars, bootVars, loadVars, colloVars>>

NextPred == MainPredict
SpecPred == InitPred /\ [][NextPred]_vars

\* The families whose training rows carry the indicator values of X_new.
RepresentedFamilies ==
    {family_name[i] : i \in {j \in DOMAIN family_name :
        DesignIndicators(family_name, j)
           = [k \in DOMAIN DummyColumns(family_name) |-> X_new.row[k + 1]]}}

\* C9: the prediction input has the columns of the training design matrix in
\* the same order, every family indicator is zero, and the all-zero setting
\* is the coding of ref_family, the most frequent family.
C9_ZeroRowIsRefFamily ==
    predPc = "done" =>
        /\ X_new.columns = DesignColumns(family_name)
        /\ \A k \in 2..Len(X_new.row) : X_new.row[k] = 0
        /\ ref_family \in MostFrequent(family_name)
        /\ RepresentedFamilies = {ref_family}

-----------------------------------------------------------------------------
(***************************************************************************)
(* load_corpus_features (11_extract_let_alone.py:47-111).                 *)
(* numpy's global generator is a deterministic function of its state: it  *)
(* is modelled as a small linear congruential generator, np.random.seed   *)
(* sets its state.                                                        *)
(***************************************************************************)
MaxCalls == 3        \* calls of load_corpus_features in one run

Corpora == {"gum", "ewt"}
NoDir == [isdir |-> FALSE, files |-> {}]
FileNames == {"en-ud-train.conllu", "README.md"}
\* fn.endswith(".conllu")
EndsWithConllu(fn) == fn = "en-ud-train.conllu"

\* The states of data/ud/<corpus>: missing, or a directory with some files.
DirStates == {NoDir} \cup {[isdir |-> TRUE, files |-> F] : F \in SUBSET FileNames}

RngStates == 0..63
RngNext(st) == (5 * st + 3) % 64

upos_choices == <<"NOUN", "VERB", "ADJ", "OTHER">>

\* A wrong seeding: the generator is left in the state it is in.
KeepRngState(corpus) == rngState

\* np.random.seed(0 if corpus == "gum" else 1), line 70.
SeedFor(corpus) == IF corpus = "gum" THEN 0 ELSE 1

\* n = 12 if corpus == "gum" else 15, line 71.
SyntheticSize(corpus) == IF corpus = "gum" THEN 12 ELSE 15

\* The condition of line 62: the directory is missing (os.listdir is then not
\* called) or holds no file ending in .conllu.
NoConlluFiles(dir) ==
    IF ~ dir.isdir THEN TRUE ELSE ~ \E fn \in dir.files : EndsWithConllu(fn)

\* Lines 75-96: row i, built from five draws in the order of the code:
\* x_upos, y_upos, licensing, dist_x_anchor, dist_anchor_y.
SyntheticRow(corpus, i, st) ==
    LET d1 == RngNext(st)
        d2 == RngNext(d1)
        d3 == RngNext(d2)
        d4 == RngNext(d3)
        d5 == RngNext(d4)
        x_upos == upos_choices[(d1 % 4) + 1]
        y_upos == upos_choices[(d2 % 4) + 1]
        parallel == \/ x_upos = "NOUN" /\ y_upos = "NOUN"
                    \/ x_upos = y_upos /\ x_upos \in {"VERB", "ADJ"}
        \* np.random.rand() < (0.6 if corpus == "gum" else 0.55)
        licensing == 100 * d3 < (IF corpus = "gum" THEN 60 ELSE 55) * 64
    IN  [row |-> [sentence_id |-> <<"syn", corpus, i>>,
                  x_form |-> <<"X", i>>,
                  y_form |-> <<"Y", i>>,
                  upos_x |-> x_upos,
                  upos_y |-> y_upos,
                  parallelism |-> IF parallel THEN 1 ELSE 0,
                  licensing |-> IF licensing THEN 1 ELSE 0,
                  dist_x_anchor |-> 1 + (d4 % 3),
                  dist_anchor_y |-> 1 + (d5 % 3),
                  corpus |-> corpus],
         rng |-> d5]

\* Lines 99-110: the rows utils_ud.extract_let_alone_features finds in the
\* files of the directory, each labelled with the corpus.
ParsedTables(corpus) ==
    {<<>>, <<[sentence_id |-> <<"parsed", corpus, 0>>, corpus |-> corpus]>>}

InitLoad ==
    /\ loadPc = "idle"
    /\ fsDirs \in [Corpora -> DirStates]
    /\ rngState \in {0, 7}
    /\ loadCorpus = ""
    /\ loadRows = <<>>
    /\ loadReturned = [c \in Corpora |-> <<>>]
    /\ NormIdle /\ SelIdle /\ CvIdle /\ BootIdle /\ PredIdle /\ ColloIdle

loadOthers == <<normVars, selVars, cvVars, bootVars, predVars, colloVars>>

CallsMade == Len(loadReturned["gum"]) + Len(loadReturned["ewt"])

\* Lines 60-73: a call whose directory is missing or holds no .conllu file
\* warns, seeds the generator and starts the synthetic table.
LoadCallSynthetic(corpus) ==
    /\ loadPc = "idle"
    /\ CallsMade < MaxCalls
    /\ NoConlluFiles(fsDirs[corpus])
    /\ loadCorpus' = corpus
    /\ rngState' = SeedFor(corpus)
    /\ loadRows' = <<>>
    /\ loadPc' = "synth"
    /\ UNCHANGED <<fsDirs, loadReturned>>
    /\ UNCHANGED loadOthers

\* Lines 75-96: one iteration of the loop over range(n).
LoadSyntheticRow ==
    /\ loadPc = "synth"
    /\ Len(loadRows) < SyntheticSize(loadCorpus)
    /\ LET r == SyntheticRow(loadCorpus, Len(loadRows), rngState)
       IN  /\ loadRows' = Append(loadRows, r.row)
           /\ rngState' = r.rng
    /\ UNCHANGED <<loadPc, fsDirs, loadCorpus, loadReturned>>
    /\ UNCHANGED loadOthers

\* Line 97: return pd.DataFrame(rows).
LoadReturnSynthetic ==
    /\ loadPc = "synth"
    /\ Len(loadRows) = SyntheticSize(loadCorpus)
    /\ loadReturned' = [loadReturned EXCEPT ![loadCorpus] = Append(@, loadRows)]
    /\ loadPc' = "idle"
    /\ loadRows' = <<>>
    /\ UNCHANGED <<fsDirs, rngState, loadCorpus>>
    /\ UNCHANGED loadOthers

\* Lines 98-111: a call whose directory holds .conllu files parses them.
LoadCallParsed(corpus) ==
    /\ loadPc = "idle"
    /\ CallsMade < MaxCalls
    /\ ~ NoConlluFiles(fsDirs[corpus])
    /\ \E t \in ParsedTables(corpus) :
          loadReturned' = [loadReturned EXCEPT ![corpus] = Append(@, t)]
    /\ loadCorpus' = corpus
    /\ UNCHANGED <<loadPc, fsDirs, rngState, loadRows>>
    /\ UNCHANGED loadOthers

\* Between two calls other code draws from the global generator.
OtherDraw ==
    /\ loadPc = "idle"
    /\ CallsMade \in 1..(MaxCalls - 1)
    /\ rngState' = RngNext(rngState)
    /\ UNCHANGED <<loadPc, fsDirs, loadCorpus, loadRows, loadReturned>>
    /\ UNCHANGED loadOthers

NextLoad ==
    \/ \E corpus \in Corpora : LoadCallSynthetic(corpus)
    \/ LoadSyntheticRow
    \/ LoadReturnSynthetic
    \/ \E corpus \in Corpora : LoadCallParsed(corpus)
    \/ OtherDraw
SpecLoad == InitLoad /\ [][NextLoad]_vars

\* C8: with the directory of a corpus missing or without a .conllu file,
\* every table load_corpus_features returns for it is non-empty, has 12 rows
\* for 'gum' and 15 for the other corpus, carries the corpus label in every
\* row, and is the same table on every call.
C8_SyntheticFallback ==
    \A c \in Corpora :
        NoConlluFiles(fsDirs[c]) =>
            \A k \in DOMAIN loadReturned[c] :
                LET t == loadReturned[c][k]
                IN  /\ Len(t) = (IF c = "gum" THEN 12 ELSE 15)
                    /\ \A i \in DOMAIN t : t[i].corpus = c
                    /\ t = loadReturned[c][1]

\* Both corpora lack .conllu files (one directory is missing, the other holds
\* only another file); 'gum' has been loaded twice and 'ewt' once.
C8_Witness ==
    /\ loadPc = "idle"
    /\ fsDirs["gum"] = NoDir /\ fsDirs["ewt"] = [isdir |-> TRUE, files |-> {"README.md"}]
    /\ Len(loadReturned["gum"]) = 2 /\ Len(loadReturned["ewt"]) = 1

-----------------------------------------------------------------------------
(***************************************************************************)
(* compute_collostruction (11_extract_let_alone.py:114-199).              *)
(* A row of df is [corpus, y_form].  A score G is kept exactly, as the    *)
(* reduced fraction exp(G / 2) = prod (x / E_x)^x over the observed cells *)
(* x > 0; the epsilon of line 172 and the two-decimal rendering of line   *)
(* 197 are left out.                                                      *)
(***************************************************************************)
MaxDf == 4           \* rows of df

NaN == "<NaN>"       \* a missing y_form
RawForms == {"a", "A", "b", NaN}

\* .str.lower().fillna(""), line 138.
StrLower(f) == IF f = "A" THEN "a" ELSE f
y_form_norm(f) == IF f = NaN THEN "" ELSE StrLower(f)

DfRows == {[corpus |-> c, y_form |-> f] : c \in Corpora, f \in RawForms}

\* df["corpus"].unique(), line 139: the labels in order of first appearance.
RECURSIVE UniqueCorpora(_, _)
UniqueCorpora(table, seen) ==
    IF table = <<>> THEN <<>>
    ELSE IF Head(table).corpus \in seen THEN UniqueCorpora(Tail(table), seen)
         ELSE <<Head(table).corpus>>
                 \o UniqueCorpora(Tail(table), seen \cup {Head(table).corpus})

\* counts_x.get(form, 0), lines 144-145, 153, 155.
FormCount(table, corpus, form) ==
    Cardinality({i \in DOMAIN table :
                    table[i].corpus = corpus /\ y_form_norm(table[i].y_form) = form})
\* counts_x.sum(), lines 146-147.
CorpusTotal(table, corpus) ==
    Cardinality({i \in DOMAIN table : table[i].corpus = corpus})
\* all_forms, line 149.
AllForms(table) == {y_form_norm(table[i].y_form) : i \in DOMAIN table}

RECURSIVE Gcd(_, _)
Gcd(m, n) == IF n = 0 THEN m ELSE Gcd(n, m % n)
RECURSIVE Pow(_, _)
Pow(x, n) == IF n = 0 THEN 1 ELSE x * Pow(x, n - 1)

\* Lines 161-183: G for the cells a, b (corpus_a: the form, the other forms)
\* and c, d (corpus_b), with the expected counts as the code assigns them:
\* E_a = row1*col1/total, E_b = row1*col2/total, E_c = row2*col1/total,
\* E_d = row2*col2/total.  x / E_x = x * total / (row * col).
GScore(a, b, c, d) ==
    LET row1 == a + c
        row2 == b + d
        col1 == a + b
        col2 == c + d
        total == row1 + row2
        num == Pow(a * total, a) * Pow(b * total, b)
                 * Pow(c * total, c) * Pow(d * total, d)
        den == Pow(row1 * col1, a) * Pow(row1 * col2, b)
                 * Pow(row2 * col1, c) * Pow(row2 * col2, d)
        g == Gcd(num, den)
    IN  [num |-> num \div g, den |-> den \div g]

\* score1 > score2, for the sort of line 196.
ScoreGreater(s1, s2) ==
    LET gn == Gcd(s1.num, s2.num)
        gd == Gcd(s1.den, s2.den)
    IN  (s1.num \div gn) * (s2.den \div gd) > (s2.num \div gn) * (s1.den \div gd)

\* A wrong attribution: the raw counts are compared.
CompareRawCounts(a, total_a, c, total_b) ==
    IF a > c THEN "a" ELSE IF c > a THEN "b" ELSE "neutral"

\* Lines 186-192: freq_a = a / total_a against freq_b = c / total_b.  Both
\* totals are positive (each corpus has a row) and two different fractions of
\* such small integers never round to the same float, so the comparison of
\* the quotients is the comparison of the cross products.
CompareFreq(a, total_a, c, total_b) ==
    IF a * total_b > c * total_a THEN "a"
    ELSE IF c * total_a > a * total_b THEN "b"
    ELSE "neutral"

\* Lines 152-192: the entries of llr_scores in insertion order, for the forms
\* taken in the order the set all_forms is iterated in.
RECURSIVE ScoreForms(_, _, _, _)
ScoreForms(table, corpus_a, corpus_b, forms) ==
    IF forms = <<>> THEN <<>>
    ELSE LET form == Head(forms)
             a == FormCount(table, corpus_a, form)
             b == CorpusTotal(table, corpus_a) - a
             c == FormCount(table, corpus_b, form)
             d == CorpusTotal(table, corpus_b) - c
             side == CompareFreq(a, a + b, c, c + d)
             rest == ScoreForms(table, corpus_a, corpus_b, Tail(forms))
         IN  IF side = "neutral" THEN rest
             ELSE <<[form |-> form,
                     corpus |-> IF side = "a" THEN corpus_a ELSE corpus_b,
                     score |-> GScore(a, b, c, d)]>> \o rest

\* scored.sort(key=lambda x: -x[1]), line 196: a stable sort, larger first.
RECURSIVE InsertByScore(_, _)
InsertByScore(x, s) ==
    IF s = <<>> THEN <<x>>
    ELSE IF ScoreGreater(x.score, Head(s).score) THEN <<x>> \o s
         ELSE <<Head(s)>> \o InsertByScore(x, Tail(s))
RECURSIVE SortByScore(_, _)
SortByScore(done, rest) ==
    IF rest = <<>> THEN done
    ELSE SortByScore(InsertByScore(Head(rest), done), Tail(rest))

\* Lines 195-198: the five best entries of one corpus.
TopFive(llr, corpus) ==
    LET scored == SelectSeq(llr, LAMBDA e : e.corpus = corpus)
        sorted == SortByScore(<<>>, scored)
        top == SubSeq(sorted, 1, IF Len(sorted) < 5 THEN Len(sorted) ELSE 5)
    IN  [i \in DOMAIN top |-> [form |-> top[i].form, score |-> top[i].score]]

\* The orders a set of forms can be iterated in.
Orders(S) == {o \in SeqsExact(S, Cardinality(S)) : {o[i] : i \in DOMAIN o} = S}

\* The function, for all_forms iterated in the order forms.
compute_collostruction(table, forms) ==
    LET corpora == UniqueCorpora(table, {})
        empty == [c \in Corpora |-> <<>>]
    IN  IF Len(corpora) # 2 THEN [llr_scores |-> <<>>, results |-> empty]
        ELSE LET llr == ScoreForms(table, corpora[1], corpora[2], forms)
             IN  [llr_scores |-> llr,
                  results |-> [c \in Corpora |-> TopFive(llr, c)]]

\* The table with its two corpora presented in the opposite order.
SwapCorpora(table) ==
    LET corpora == UniqueCorpora(table, {})
    IN  IF Len(corpora) # 2 THEN table
        ELSE SelectSeq(table, LAMBDA r : r.corpus = corpora[2])
                \o SelectSeq(table, LAMBDA r : r.corpus = corpora[1])

InitCollo ==
    /\ colloPc = "input"
    /\ df \in SeqsUpTo(DfRows, MaxDf)
    /\ llr_scores = <<>>
    /\ results = <<>>
    /\ results_swapped = <<>>
    /\ NormIdle /\ SelIdle /\ CvIdle /\ BootIdle /\ PredIdle /\ LoadIdle

colloOthers == <<normVars, selVars, cvVars, bootVars, predVars, loadVars>>

\* collos = compute_collostruction(df_all), line 216.
ComputeCollostruction ==
    /\ colloPc = "input"
    /\ \E forms \in Orders(AllForms(df)) :
          LET out == compute_collostruction(df, forms)
          IN  /\ llr_scores' = out.llr_scores
              /\ results' = out.results
    /\ colloPc' = "done"
    /\ UNCHANGED <<df, results_swapped>>
    /\ UNCHANGED colloOthers

\* The function applied to the same rows with the corpora swapped.
ComputeSwapped ==
    /\ colloPc = "done"
    /\ \E forms \in Orders(AllForms(df)) :
          results_swapped' = compute_collostruction(SwapCorpora(df), forms).results
    /\ colloPc' = "swapped"
    /\ UNCHANGED <<df, llr_scores, results>>
    /\ UNCHANGED colloOthers

NextCollo == ComputeCollostruction
SpecCollo == InitCollo /\ [][NextCollo]_vars

\* The function applied twice, to the table and to its swapped form.
NextColloSwap == ComputeCollostruction \/ ComputeSwapped
SpecColloSwap == InitCollo /\ [][NextColloSwap]_vars

TwoCorpora == {df[i].corpus : i \in DOMAIN df} = Corpora
FormsListed(res, c) == {res[c][i].form : i \in DOMAIN res[c]}
ScoredFor(form) == {llr_scores[i].corpus : i \in {j \in DOMAIN llr_scores :
                                                     llr_scores[j].form = form}}
\* The relative frequency of a form in a corpus, times both corpus sizes.
ScaledFreq(form, c) ==
    FormCount(df, c, form) * CorpusTotal(df, IF c = "gum" THEN "ewt" ELSE "gum")

\* C6: over two corpora, a form with the same relative frequency in both is
\* scored for neither corpus and is in neither list; every other form is
\* scored once, for the corpus where its relative frequency is strictly
\* higher, is never in the other corpus's list, and is in its own corpus's
\* list when that corpus has at most five scored forms.
C6_AttributedToHigherFrequency ==
    (colloPc = "done" /\ TwoCorpora) =>
        \A form \in AllForms(df) :
            LET hi == {c \in Corpora :
                          \A o \in Corpora \ {c} :
                              ScaledFreq(form, c) > ScaledFreq(form, o)}
            IN  /\ ScoredFor(form) = hi
                /\ Cardinality({j \in DOMAIN llr_scores :
                                   llr_scores[j].form = form}) = Cardinality(hi)
                /\ \A c \in Corpora :
                      /\ form \in FormsListed(results, c) => c \in hi
                      /\ (c \in hi /\ Cardinality({j \in DOMAIN llr_scores :
                                          llr_scores[j].corpus = c}) <= 5)
                            => form \in FormsListed(results, c)

\* A table with a form of the same relative frequency in both corpora, scored
\* for neither, next to a form scored for 'gum' and a form scored for 'ewt'.
C6_Witness ==
    /\ colloPc = "done" /\ TwoCorpora
    /\ \E f \in AllForms(df) :
          /\ ScaledFreq(f, "gum") = ScaledFreq(f, "ewt")
          /\ ScoredFor(f) = {}
    /\ \E f \in AllForms(df) : ScoredFor(f) = {"gum"}
    /\ \E f \in AllForms(df) : ScoredFor(f) = {"ewt"}

\* C7: with the two corpora swapped every corpus is credited with the same
\* forms and the same scores.
C7_SymmetricUnderSwap ==
    colloPc = "swapped" =>
        \A c \in Corpora :
            {results[c][i] : i \in DOMAIN results[c]}
               = {results_swapped[c][i] : i \in DOMAIN results_swapped[c]}

=============================================================================
